---------------------------- MODULE Spec2Model ----------------------------
(***************************************************************************)
(* A model of EtchoBot.py: the Wordle result parser, the scoring function, *)
(* the aggregation of one message into a leaderboard snapshot, the ranking *)
(* of a snapshot, and the three ingestion modes (live on_message, the      *)
(* backfill_wordle command and the log_by_id command) over one persisted   *)
(* leaderboard file.                                                       *)
(*                                                                         *)
(* Text is a sequence of one-character strings, so that the regular        *)
(* expressions of the source are modelled by what they match.              *)
(***************************************************************************)
EXTENDS Integers, Sequences, FiniteSets, TLC

VARIABLES
    file,      \* leaderboard.json: [state, data]
    history,   \* the channel: the sequence of messages posted, oldest first
    tasks,     \* one record per running or finished on_message invocation
    fn,        \* the function a pure-function specification applies
    arg,       \* its input
    ret        \* <<>> before the call, <<result>> after it

vars == <<file, history, tasks, fn, arg, ret>>

---------------------------------------------------------------------------
(* Bounds of the model.                                                    *)

MaxTokenLen == 2      \* longest result_str given to calculate_score alone
MaxSegments == 2      \* score segments in a generated message body
MaxMentions == 2      \* mentions in one generated segment
MaxPlayers == 3       \* records in a generated snapshot to rank
MaxScore == 3         \* largest total_score in a generated snapshot to rank
MaxGames == 2         \* largest games_played in a generated snapshot to rank
MaxBacklog == 2       \* messages in the channel before the bot starts
MaxArrivals == 2      \* messages that arrive while the bot runs
OverlapBacklog == 0   \* MaxBacklog where handlers overlap
SmallLimit == 3       \* an explicit limit argument of !backfill_wordle
MaxFailedLookups == 1 \* fetch_user calls that fail in one call of process_wordle_message
MaxOrderSegments == 1 \* MaxSegments of each of two messages ingested in both orders
StorageBacklog == 1   \* MaxBacklog where the file the bot finds varies
MaxPieces == 4        \* pieces of text in a generated raw message body

---------------------------------------------------------------------------
(* Characters.                                                             *)

Digit == {"0", "1", "2", "3", "4", "5", "6", "7", "8", "9"}

DigitVal(c) ==
    CASE c = "0" -> 0 [] c = "1" -> 1 [] c = "2" -> 2 [] c = "3" -> 3
      [] c = "4" -> 4 [] c = "5" -> 5 [] c = "6" -> 6 [] c = "7" -> 7
      [] c = "8" -> 8 [] c = "9" -> 9

\* str.isspace of the characters the model uses
IsSpace(c) == c \in {" ", "\n", "\t"}

\* str.upper / str.lower, on the letters the model uses
UpperChar(c) ==
    CASE c = "x" -> "X" [] c = "y" -> "Y" [] c = "a" -> "A" [] OTHER -> c

LowerChar(c) ==
    CASE c = "X" -> "x" [] c = "Y" -> "y" [] c = "A" -> "a" [] OTHER -> c

Upper(s) == [i \in 1..Len(s) |-> UpperChar(s[i])]

Lower(s) == [i \in 1..Len(s) |-> LowerChar(s[i])]

\* first index >= i of s that holds no whitespace (Len(s)+1 when none)
RECURSIVE SkipSpace(_, _)
SkipSpace(s, i) ==
    IF i <= Len(s) /\ IsSpace(s[i]) THEN SkipSpace(s, i + 1) ELSE i

\* last index <= i of s that holds no whitespace (0 when none)
RECURSIVE SkipSpaceBack(_, _)
SkipSpaceBack(s, i) ==
    IF i >= 1 /\ IsSpace(s[i]) THEN SkipSpaceBack(s, i - 1) ELSE i

\* str.strip()
Strip(s) == SubSeq(s, SkipSpace(s, 1), SkipSpaceBack(s, Len(s)))

\* str.replace('**', ''): non-overlapping occurrences, left to right
RECURSIVE RemoveStars(_)
RemoveStars(s) ==
    IF Len(s) = 0 THEN <<>>
    ELSE IF Len(s) >= 2 /\ s[1] = "*" /\ s[2] = "*"
         THEN RemoveStars(SubSeq(s, 3, Len(s)))
         ELSE <<s[1]>> \o RemoveStars(Tail(s))

\* whether sub occurs in s at index i
OccursAt(sub, s, i) ==
    /\ i + Len(sub) - 1 <= Len(s)
    /\ \A k \in 1..Len(sub) : s[i + k - 1] = sub[k]

\* the Python operator `sub in s`
Contains(sub, s) == \E i \in 1..(Len(s) + 1) : OccursAt(sub, s, i)

\* str.startswith
StartsWith(s, prefix) == OccursAt(prefix, s, 1)

---------------------------------------------------------------------------
(* calculate_score                                                         *)

\* the value of a run of decimal digits
RECURSIVE DigitsVal(_)
DigitsVal(s) ==
    IF Len(s) = 0 THEN 0
    ELSE 10 * DigitsVal(SubSeq(s, 1, Len(s) - 1)) + DigitVal(s[Len(s)])

\* int(str): surrounding whitespace is ignored, one sign is allowed, then
\* one or more digits; anything else raises ValueError (ok = FALSE)
IntParse(s) ==
    LET t == Strip(s)
        signed == Len(t) >= 1 /\ t[1] \in {"-", "+"}
        d == IF signed THEN Tail(t) ELSE t
    IN  IF Len(d) >= 1 /\ \A i \in 1..Len(d) : d[i] \in Digit
        THEN [ok |-> TRUE,
              val |-> IF signed /\ t[1] = "-" THEN 0 - DigitsVal(d)
                      ELSE DigitsVal(d)]
        ELSE [ok |-> FALSE, val |-> 0]

Max(a, b) == IF a >= b THEN a ELSE b

\* calculate_score with 6 - guesses in the place of 7 - guesses
calculate_score_off_by_one(result_str) ==
    IF Upper(result_str) = <<"X">> THEN 0
    ELSE LET guesses == IntParse(result_str)
         IN  IF guesses.ok THEN Max(0, 6 - guesses.val) ELSE 0

calculate_score(result_str) ==
    IF Upper(result_str) = <<"X">> THEN 0
    ELSE LET guesses == IntParse(result_str)
         IN  IF guesses.ok THEN Max(0, 7 - guesses.val) ELSE 0

---------------------------------------------------------------------------
(* process_wordle_message                                                  *)

WORDLE_BOT_ID == "1211781489931452447"

\* the other authors of messages
SELF == "client.user"      \* this bot
ADMIN == "administrator"   \* a member with the administrator permission
MEMBER == "member"         \* a member without it

\* the score part of WORDLE_SCORE_PATTERN, (\d|X)/6: under re.IGNORECASE,
\* matching s at index i
ScoreAt(s, i) ==
    /\ i + 3 <= Len(s)
    /\ s[i] \in Digit \cup {"X", "x"}
    /\ s[i + 1] = "/"
    /\ s[i + 2] = "6"
    /\ s[i + 3] = ":"

\* $ without re.MULTILINE: the end of the text, or just before a final newline
AtEnd(s, j) == j = Len(s) + 1 \/ (j = Len(s) /\ s[j] = "\n")

\* where the lazy group (.*?) started at a stops: the first index at which
\* the lookahead (?=(\d|X)/6:|$) holds
\* the group written greedy, (.*): it runs to the end of the text
SegmentEndGreedy(s, j) == Len(s) + 1

RECURSIVE SegmentEnd(_, _)
SegmentEnd(s, j) ==
    IF ScoreAt(s, j) \/ AtEnd(s, j) THEN j ELSE SegmentEnd(s, j + 1)

\* WORDLE_SCORE_PATTERN.findall(s), scanning from index i: the pairs
\* (score character, mention segment) of the non-overlapping matches
RECURSIVE FindScores(_, _)
FindScores(s, i) ==
    IF i > Len(s) THEN <<>>
    ELSE IF ScoreAt(s, i)
         THEN LET a == SkipSpace(s, i + 4)
                  j == SegmentEnd(s, a)
              IN  <<  <<s[i], SubSeq(s, a, j - 1)>>  >> \o FindScores(s, j)
         ELSE FindScores(s, i + 1)

score_matches(content_to_parse) == FindScores(content_to_parse, 1)

\* first index >= i of s that holds no digit
RECURSIVE SkipDigits(_, _)
SkipDigits(s, i) ==
    IF i <= Len(s) /\ s[i] \in Digit THEN SkipDigits(s, i + 1) ELSE i

\* re.findall(r'<@!?(\d+)>', s), scanning from index i
RECURSIVE FindMentions(_, _)
FindMentions(s, i) ==
    IF i > Len(s) THEN <<>>
    ELSE IF i + 1 <= Len(s) /\ s[i] = "<" /\ s[i + 1] = "@"
         THEN LET k == IF i + 2 <= Len(s) /\ s[i + 2] = "!" THEN i + 3 ELSE i + 2
                  d == SkipDigits(s, k)
              IN  IF d > k /\ d <= Len(s) /\ s[d] = ">"
                  THEN <<SubSeq(s, k, d - 1)>> \o FindMentions(s, d + 1)
                  ELSE FindMentions(s, i + 1)
         ELSE FindMentions(s, i + 1)

user_mentions(mention_segment) == FindMentions(mention_segment, 1)

\* what one client.fetch_user call can do
Outcomes == {"ok", "not_found", "error"}

\* the username the try/except around fetch_user leaves: user.name, or one
\* of the two placeholders that embed user_id
ResolveName(user_id, outcome) ==
    [kind |-> IF outcome = "ok" THEN "name" ELSE outcome, ref |-> user_id]

\* the (user_id, points) pairs the two nested loops visit, in order
RECURSIVE Occurrences(_)
Occurrences(matches) ==
    IF Len(matches) = 0 THEN <<>>
    ELSE LET score_char == Upper(<<matches[1][1]>>)
             points == calculate_score(score_char)
             ids == user_mentions(matches[1][2])
         IN  [k \in 1..Len(ids) |-> [user_id |-> ids[k], points |-> points]]
             \o Occurrences(Tail(matches))

EmptyBoard == [x \in {} |-> 0]

\* the inner loop with total_score assigned, = points, instead of += points
LogOccurrenceAssign(data, user_id, points, username) ==
    LET games == IF user_id \in DOMAIN data THEN data[user_id].games_played ELSE 0
    IN  [x \in DOMAIN data \cup {user_id} |->
            IF x = user_id
            THEN [username |-> username, total_score |-> points,
                  games_played |-> games + 1]
            ELSE data[x]]

\* the inner loop with the two += inside `if user_id not in leaderboard_data`
LogOccurrenceNewOnly(data, user_id, points, username) ==
    IF user_id \in DOMAIN data
    THEN [data EXCEPT ![user_id].username = username]
    ELSE [x \in DOMAIN data \cup {user_id} |->
            IF x = user_id
            THEN [username |-> username, total_score |-> points,
                  games_played |-> 1]
            ELSE data[x]]

\* the inner loop with a placeholder never put in the place of a name
\* already stored
LogOccurrenceKeepName(data, user_id, points, username) ==
    IF user_id \in DOMAIN data
    THEN [data EXCEPT ![user_id] =
            [username |-> IF username.kind = "name" THEN username ELSE @.username,
             total_score |-> @.total_score + points,
             games_played |-> @.games_played + 1]]
    ELSE [x \in DOMAIN data \cup {user_id} |->
            IF x = user_id
            THEN [username |-> username, total_score |-> points, games_played |-> 1]
            ELSE data[x]]

\* the body of the inner loop for one mention
LogOccurrence(data, user_id, points, username) ==
    LET created == IF user_id \in DOMAIN data
                   THEN data
                   ELSE [x \in DOMAIN data \cup {user_id} |->
                           IF x = user_id
                           THEN [username |-> username, total_score |-> 0,
                                 games_played |-> 0]
                           ELSE data[x]]
    IN  [created EXCEPT ![user_id] =
            [username |-> username,
             total_score |-> @.total_score + points,
             games_played |-> @.games_played + 1]]

\* the loops with only discord.NotFound caught: another error of
\* fetch_user ends the call with what was logged before it
RECURSIVE LogFromAborting(_, _, _, _)
LogFromAborting(data, occs, outcomes, k) ==
    IF k > Len(occs) \/ outcomes[k] = "error" THEN data
    ELSE LogFromAborting(LogOccurrence(data, occs[k].user_id, occs[k].points,
                                       ResolveName(occs[k].user_id, outcomes[k])),
                         occs, outcomes, k + 1)

\* the loops over occs[k..], fetch_user call k ending as outcomes[k]
RECURSIVE LogFrom(_, _, _, _)
LogFrom(data, occs, outcomes, k) ==
    IF k > Len(occs) THEN data
    ELSE LogFrom(LogOccurrence(data, occs[k].user_id, occs[k].points,
                               ResolveName(occs[k].user_id, outcomes[k])),
                 occs, outcomes, k + 1)

\* content_to_parse after the cleaning step
CleanContent(content) == Strip(RemoveStars(content))

\* the occurrences a message makes process_wordle_message log
MessageOccurrences(message) ==
    IF message.author # WORDLE_BOT_ID \/ Len(message.content) = 0 THEN <<>>
    ELSE Occurrences(score_matches(CleanContent(message.content)))

\* process_wordle_message without Check 1, the author test
process_wordle_message_any_author(message, leaderboard_data, outcomes) ==
    IF Len(message.content) = 0
    THEN [data |-> leaderboard_data, logged |-> FALSE]
    ELSE LET occs == Occurrences(score_matches(CleanContent(message.content)))
         IN  [data |-> LogFrom(leaderboard_data, occs, outcomes, 1),
              logged |-> Len(occs) > 0]

\* process_wordle_message returning True whenever a score pattern matched
process_wordle_message_any_match(message, leaderboard_data, outcomes) ==
    IF message.author # WORDLE_BOT_ID \/ Len(message.content) = 0
    THEN [data |-> leaderboard_data, logged |-> FALSE]
    ELSE LET matches == score_matches(CleanContent(message.content))
         IN  [data |-> LogFrom(leaderboard_data, Occurrences(matches), outcomes, 1),
              logged |-> Len(matches) > 0]

\* process_wordle_message(message, leaderboard_data, client): the dict as
\* the call leaves it and the value returned, the fetch_user calls ending
\* as outcomes says
process_wordle_message(message, leaderboard_data, outcomes) ==
    IF message.author # WORDLE_BOT_ID
    THEN [data |-> leaderboard_data, logged |-> FALSE]
    ELSE IF Len(message.content) = 0
    THEN [data |-> leaderboard_data, logged |-> FALSE]
    ELSE LET matches == score_matches(CleanContent(message.content))
             occs == Occurrences(matches)
         IN  IF Len(matches) = 0
             THEN [data |-> leaderboard_data, logged |-> FALSE]
             ELSE [data |-> LogFrom(leaderboard_data, occs, outcomes, 1),
                   logged |-> Len(occs) > 0]

\* the outcome vectors of the fetch_user calls the mentions of a message
\* can cause, at most MaxFailedLookups of the calls failing
OutcomeChoices(message) ==
    {o \in [1..Len(Occurrences(score_matches(CleanContent(message.content))))
              -> Outcomes] :
        Cardinality({k \in DOMAIN o : o[k] # "ok"}) <= MaxFailedLookups}

---------------------------------------------------------------------------
(* display_wordle_leaderboard                                              *)

\* the second component of the sort key, 7.0 - total_score / games_played
\* (7.0 when games_played is 0), as an exact fraction num / den, den > 0
AverageGuess(data) ==
    IF data.games_played > 0
    THEN [num |-> 7 * data.games_played - data.total_score,
          den |-> data.games_played]
    ELSE [num |-> 7, den |-> 1]

FracLess(a, b) == a.num * b.den < b.num * a.den

\* the key of the lambda, compared as Python compares tuples
KeyLess(d1, d2) ==
    \/ d1.total_score < d2.total_score
    \/ /\ d1.total_score = d2.total_score
       /\ FracLess(AverageGuess(d1), AverageGuess(d2))

\* a sort that keeps one item per key: x is dropped when an item with an
\* equal key is there already
InsertReverseDroppingTies(sorted, x) ==
    IF \E i \in 1..Len(sorted) :
          ~KeyLess(sorted[i][2], x[2]) /\ ~KeyLess(x[2], sorted[i][2])
    THEN sorted
    ELSE LET p == Cardinality({i \in 1..Len(sorted) : ~KeyLess(sorted[i][2], x[2])})
         IN  SubSeq(sorted, 1, p) \o <<x>> \o SubSeq(sorted, p + 1, Len(sorted))

\* item x put into a list already sorted with reverse=True: sorted() is
\* stable, so x, which came later in the dict, goes after every item whose
\* key is not less than its own
InsertReverse(sorted, x) ==
    LET p == Cardinality({i \in 1..Len(sorted) : ~KeyLess(sorted[i][2], x[2])})
    IN  SubSeq(sorted, 1, p) \o <<x>> \o SubSeq(sorted, p + 1, Len(sorted))

\* sorted(leaderboard_data.items(), key=..., reverse=True); items is the
\* dict's (user_id, data) pairs in insertion order
RECURSIVE sorted_board(_)
sorted_board(items) ==
    IF Len(items) = 0 THEN <<>>
    ELSE InsertReverse(sorted_board(SubSeq(items, 1, Len(items) - 1)),
                       items[Len(items)])

\* avg_guess_display of one row
AvgGuessDisplay(data) ==
    IF data.total_score = 0 /\ data.games_played > 0 THEN "X/6"
    ELSE IF data.games_played > 0 THEN "avg/6"
    ELSE "N/A/6"

\* what display_wordle_leaderboard sends for the dict whose items are given:
\* the empty notice, or one row per item of sorted_board
display_wordle_leaderboard(items) ==
    IF Len(items) = 0 THEN [empty |-> TRUE, rows |-> <<>>]
    ELSE LET board == sorted_board(items)
         IN  [empty |-> FALSE,
              rows |-> [index \in 1..Len(board) |->
                          [rank |-> index,
                           user_id |-> board[index][1],
                           score |-> board[index][2].total_score,
                           games |-> board[index][2].games_played,
                           avg_guess_display |-> AvgGuessDisplay(board[index][2])]]]

---------------------------------------------------------------------------
(* Specifications that apply one function to inputs drawn from a bounded   *)
(* set. The channel, the file and the tasks play no part in them.          *)

\* no leaderboard.json yet; writer is the task that saved last (0: none)
NoFile == [state |-> "absent", data |-> EmptyBoard, writer |-> 0]

Idle == file = NoFile /\ history = <<>> /\ tasks = <<>>

\* the sequences over S of length 0..n
RECURSIVE SeqsUpTo(_, _)
SeqsUpTo(S, n) ==
    IF n = 0 THEN {<<>>}
    ELSE LET shorter == SeqsUpTo(S, n - 1)
         IN  shorter \cup {Append(q, x) : q \in {r \in shorter : Len(r) = n - 1}, x \in S}

DigitChar(n) ==
    CASE n = 0 -> "0" [] n = 1 -> "1" [] n = 2 -> "2" [] n = 3 -> "3"
      [] n = 4 -> "4" [] n = 5 -> "5" [] n = 6 -> "6" [] n = 7 -> "7"
      [] n = 8 -> "8" [] n = 9 -> "9"

\* ---- calculate_score on arbitrary short strings

TokenAlphabet == Digit \cup {"X", "x", "-", "a", " "}

TokenStrings == SeqsUpTo(TokenAlphabet, MaxTokenLen)

InitScore ==
    /\ Idle
    /\ fn = "calculate_score"
    /\ arg \in TokenStrings
    /\ ret = <<>>

CallCalculateScore ==
    /\ fn = "calculate_score"
    /\ ret = <<>>
    /\ ret' = <<calculate_score(arg)>>
    /\ UNCHANGED <<file, history, tasks, fn, arg>>

SpecScore == InitScore /\ [][CallCalculateScore]_vars

\* ---- display_wordle_leaderboard on generated snapshots

RankName == [kind |-> "name", ref |-> <<>>]

\* records as process_wordle_message leaves them: at least one game
RankRecords ==
    [username : {RankName}, total_score : 0..MaxScore, games_played : 1..MaxGames]

\* the dicts of up to MaxPlayers records, the i-th inserted under key "i"
RankSnapshots ==
    {[i \in 1..Len(q) |-> << <<DigitChar(i)>>, q[i] >>] :
        q \in SeqsUpTo(RankRecords, MaxPlayers)}

InitRank ==
    /\ Idle
    /\ fn = "display_wordle_leaderboard"
    /\ arg \in RankSnapshots
    /\ ret = <<>>

CallDisplay ==
    /\ fn = "display_wordle_leaderboard"
    /\ ret = <<>>
    /\ ret' = <<display_wordle_leaderboard(arg)>>
    /\ UNCHANGED <<file, history, tasks, fn, arg>>

SpecRank == InitRank /\ [][CallDisplay]_vars

\* ---- process_wordle_message on generated message bodies

\* the (score character, user ids) pairs the outer loop of
\* process_wordle_message sees for a message body
ParsedResults(content) ==
    LET matches == score_matches(CleanContent(content))
    IN  [i \in 1..Len(matches) |->
            [token |-> matches[i][1], refs |-> user_mentions(matches[i][2])]]

IngestTokens == {"2", "X", "x", "0"}

\* a mention as the transport writes it: <@id> or <@!id>
MentionText(m) ==
    IF m.bang THEN <<"<", "@", "!">> \o m.id \o <<">">>
    ELSE <<"<", "@">> \o m.id \o <<">">>

MentionForms == {[id |-> <<"1">>, bang |-> FALSE], [id |-> <<"2">>, bang |-> TRUE]}

Segments == [token : IngestTokens, mentions : SeqsUpTo(MentionForms, MaxMentions)]

RECURSIVE MentionsText(_)
MentionsText(ms) ==
    IF Len(ms) = 0 THEN <<>>
    ELSE <<" ">> \o MentionText(ms[1]) \o MentionsText(Tail(ms))

\* the body the result bot posts for the segments: one line per score,
\* "<token>/6:" and then the mentions of the players who got it
RECURSIVE BodyText(_)
BodyText(segs) ==
    IF Len(segs) = 0 THEN <<>>
    ELSE <<segs[1].token, "/", "6", ":">> \o MentionsText(segs[1].mentions)
         \o <<"\n">> \o BodyText(Tail(segs))

\* a snapshot in which player 1 already has two games
OldName == [kind |-> "name", ref |-> <<"1">>]

StartSnapshots ==
    { EmptyBoard,
      [x \in {<<"1">>} |-> [username |-> OldName, total_score |-> 5, games_played |-> 2]] }

InitIngest ==
    /\ Idle
    /\ fn = "process_wordle_message"
    /\ \E segs \in SeqsUpTo(Segments, MaxSegments), snap \in StartSnapshots :
          arg = [segs |-> segs,
                 snapshot |-> snap,
                 message |-> [id |-> 1, author |-> WORDLE_BOT_ID,
                              content |-> BodyText(segs), note |-> "none"]]
    /\ ret = <<>>

\* one call on the starting snapshot
Ingest ==
    /\ fn = "process_wordle_message"
    /\ ret = <<>>
    /\ \E outcomes \in OutcomeChoices(arg.message) :
          ret' = << [parsed |-> ParsedResults(arg.message.content),
                     outcomes |-> outcomes]
                    @@ process_wordle_message(arg.message, arg.snapshot, outcomes) >>
    /\ UNCHANGED <<file, history, tasks, fn, arg>>

\* a second call with the same message on the dict the first call left
IngestAgain ==
    /\ fn = "process_wordle_message"
    /\ Len(ret) = 1
    /\ \E outcomes \in OutcomeChoices(arg.message) :
          ret' = Append(ret,
                    [parsed |-> ParsedResults(arg.message.content),
                     outcomes |-> outcomes]
                    @@ process_wordle_message(arg.message, ret[1].data, outcomes))
    /\ UNCHANGED <<file, history, tasks, fn, arg>>

SpecIngest == InitIngest /\ [][Ingest \/ IngestAgain]_vars

\* ---- process_wordle_message on the same results in two orders

Reverse(q) == [i \in 1..Len(q) |-> q[Len(q) - i + 1]]

\* the segments with the mentions of each in the opposite order
ReverseMentions(segs) ==
    [i \in 1..Len(segs) |-> [segs[i] EXCEPT !.mentions = Reverse(@)]]

\* the message the result bot posts for the segments
ResultMessage(segs) ==
    [id |-> 1, author |-> WORDLE_BOT_ID, content |-> BodyText(segs), note |-> "none"]

\* pairs (one, other) of sequences of messages, other being one with its
\* results, its mentions or its messages in another order
Reorderings ==
    {[kind |-> "results", one |-> <<ResultMessage(segs)>>,
      other |-> <<ResultMessage(Reverse(segs))>>] :
        segs \in SeqsUpTo(Segments, MaxSegments)}
    \cup
    {[kind |-> "mentions", one |-> <<ResultMessage(segs)>>,
      other |-> <<ResultMessage(ReverseMentions(segs))>>] :
        segs \in SeqsUpTo(Segments, MaxSegments)}
    \cup
    {[kind |-> "messages",
      one |-> <<ResultMessage(a), ResultMessage(b)>>,
      other |-> <<ResultMessage(b), ResultMessage(a)>>] :
        a, b \in SeqsUpTo(Segments, MaxOrderSegments)}

\* the messages ms given to process_wordle_message one after another on
\* one dict, as a backfill does, every fetch_user call ending as outcome
RECURSIVE IngestAll(_, _, _)
IngestAll(ms, data, outcome) ==
    IF Len(ms) = 0 THEN data
    ELSE LET n == Len(MessageOccurrences(ms[1]))
             r == process_wordle_message(ms[1], data, [k \in 1..n |-> outcome])
         IN  IngestAll(Tail(ms), r.data, outcome)

InitOrder ==
    /\ Idle
    /\ fn = "ingest_in_order"
    /\ \E r \in Reorderings, snap \in StartSnapshots :
          arg = [snapshot |-> snap] @@ r
    /\ ret = <<>>

\* the messages in the one order
IngestOne ==
    /\ fn = "ingest_in_order"
    /\ ret = <<>>
    /\ \E outcome \in Outcomes :
          ret' = << [data |-> IngestAll(arg.one, arg.snapshot, outcome)] >>
    /\ UNCHANGED <<file, history, tasks, fn, arg>>

\* the messages in the other order, on the same starting snapshot
IngestOther ==
    /\ fn = "ingest_in_order"
    /\ Len(ret) = 1
    /\ \E outcome \in Outcomes :
          ret' = Append(ret, [data |-> IngestAll(arg.other, arg.snapshot, outcome)])
    /\ UNCHANGED <<file, history, tasks, fn, arg>>

SpecOrder == InitOrder /\ [][IngestOne \/ IngestOther]_vars

\* ---- process_wordle_message on raw text, from any author

\* the pieces raw bodies are put together from
Pieces ==
    { <<"2">>, <<"x">>, <<"/", "6", ":">>, <<"<", "@", "1", ">">>,
      <<"<", "@", "!", "2", ">">>, <<"*", "*">>, <<" ">>, <<"\n">> }

RECURSIVE Concat(_)
Concat(q) == IF Len(q) = 0 THEN <<>> ELSE q[1] \o Concat(Tail(q))

RawBodies == {Concat(q) : q \in SeqsUpTo(Pieces, MaxPieces)}

InitMessage ==
    /\ Idle
    /\ fn = "process_wordle_message"
    /\ \E author \in {WORDLE_BOT_ID, MEMBER}, content \in RawBodies,
          snap \in StartSnapshots :
          arg = [snapshot |-> snap,
                 message |-> [id |-> 1, author |-> author, content |-> content,
                              note |-> "none"]]
    /\ ret = <<>>

\* one call, the fetch_user calls ending as outcomes says
IngestMessage ==
    /\ fn = "process_wordle_message"
    /\ ret = <<>>
    /\ \E outcomes \in OutcomeChoices(arg.message) :
          ret' = << [outcomes |-> outcomes]
                    @@ process_wordle_message(arg.message, arg.snapshot, outcomes) >>
    /\ UNCHANGED <<file, history, tasks, fn, arg>>

SpecMessage == InitMessage /\ [][IngestMessage]_vars

---------------------------------------------------------------------------
(* The leaderboard file.                                                   *)

\* whether load_leaderboard() raises: open() fails with an OSError that is
\* not FileNotFoundError (no permission, a directory), or the bytes of the
\* file are not text in the encoding (UnicodeDecodeError, a ValueError that
\* is not a JSONDecodeError); the except clause names neither. A file of
\* state "corrupt" is text that json.load rejects with JSONDecodeError.
load_leaderboard_raises(f) == f.state \in {"unreadable", "undecodable"}

\* load_leaderboard(): {} when the file does not exist or does not decode
load_leaderboard(f) ==
    IF f.state = "absent" THEN EmptyBoard
    ELSE IF f.state = "corrupt" THEN EmptyBoard
    ELSE f.data

\* a save that keeps the records of the file that data does not hold
save_leaderboard_merging(data) ==
    [state |-> "ok",
     data |-> [x \in DOMAIN data \cup DOMAIN load_leaderboard(file) |->
                 IF x \in DOMAIN data THEN data[x] ELSE load_leaderboard(file)[x]]]

\* save_leaderboard(data): the file after the dump
save_leaderboard(data) == [state |-> "ok", data |-> data]

\* the file after task t called save_leaderboard(data)
Saved(t, data) == save_leaderboard(data) @@ [writer |-> t]

---------------------------------------------------------------------------
(* The channel and the messages in it.                                     *)

KEYWORD_PHRASE ==
    <<"y", "e", "s", "t", "e", "r", "d", "a", "y", "'", "s", " ", "r", "e",
      "s", "u", "l", "t", "s">>

\* a post of the result bot that backfill accepts, with two results
ResultsPost ==
    <<"*", "*", "Y", "e", "s", "t", "e", "r", "d", "a", "y", "'", "s", " ",
      "r", "e", "s", "u", "l", "t", "s", "*", "*", "\n", "1", "/", "6",
      ":", " ", "<", "@", "1", ">", "\n", "X", "/", "6", ":", " ", "<",
      "@", "!", "2", ">">>

\* a result without the phrase
ScoreOnlyPost ==
    <<"3", "/", "6", ":", " ", "<", "@", "!", "1", ">">>

\* the phrase and a score nobody got
NobodyPost ==
    <<"Y", "e", "s", "t", "e", "r", "d", "a", "y", "'", "s", " ", "r", "e",
      "s", "u", "l", "t", "s", "\n", "2", "/", "6", ":">>

\* a result with the guess count 0, which the score pattern accepts
ZeroGuessPost ==
    <<"0", "/", "6", ":", " ", "<", "@", "2", ">">>

BackfillPrefix ==
    <<"!", "b", "a", "c", "k", "f", "i", "l", "l", "_", "w", "o", "r", "d",
      "l", "e">>

LogByIdPrefix ==
    <<"!", "l", "o", "g", "_", "b", "y", "_", "i", "d">>

NoCmd == [name |-> "none", limit |-> 0, message_id |-> 0]

\* the (author, content) pairs of the posts that are not commands
Posts ==
    { <<WORDLE_BOT_ID, ResultsPost>>, <<WORDLE_BOT_ID, ScoreOnlyPost>>,
      <<WORDLE_BOT_ID, NobodyPost>>, <<WORDLE_BOT_ID, ZeroGuessPost>>,
      <<MEMBER, ResultsPost>> }

PostMessage(id, post) ==
    [id |-> id, author |-> post[1], content |-> post[2], note |-> "none",
     cmd |-> NoCmd, by |-> 0]

\* the default of the limit parameter of backfill_wordle_leaderboard
DefaultLimit == 5000

Min(a, b) == IF a <= b THEN a ELSE b

\* channel.history(limit=limit): the ids of the newest messages, newest first
ChannelHistory(limit) ==
    [k \in 1..Min(limit, Len(history)) |-> Len(history) - k + 1]

\* ctx.send / message.channel.send by task t: the channel with the message
\* added (on_message returns at once for the bot's own messages)
Sent(t, note) ==
    Append(history,
           [id |-> Len(history) + 1, author |-> SELF, content |-> <<>>,
            note |-> note, cmd |-> NoCmd, by |-> t])

\* is_wordle_result without the author test
is_wordle_result_any_author(message) ==
    Contains(Lower(KEYWORD_PHRASE), Lower(Strip(message.content)))

\* is_wordle_result of the backfill loop
is_wordle_result(message) ==
    /\ Contains(Lower(KEYWORD_PHRASE), Lower(Strip(message.content)))
    /\ message.author = WORDLE_BOT_ID

---------------------------------------------------------------------------
(* Tasks: one per message that arrives while the bot runs, running         *)
(* on_message and, through process_commands, the command it invokes.       *)
(* A task moves from one await to the next in one step.                    *)

NewTask ==
    [pc |-> "on_message",
     leaderboard_data |-> EmptyBoard,
     queue |-> <<>>,          \* what the history iterator has yet to deliver
     logged_count |-> 0,
     say |-> "none",          \* the text of the send the task is awaiting
     after |-> "none",        \* where the task goes on after that send
     \* what the task did, kept for the properties
     before |-> file,         \* the file when the message arrived
     loaded |-> EmptyBoard,   \* the snapshot the ingestion loaded
     window |-> <<>>,         \* the messages the history iterator delivered
     processed |-> <<>>,      \* messages given to process_wordle_message
     logged |-> <<>>,         \* those for which it returned True
     saves |-> 0,             \* calls of save_leaderboard
     loads |-> 0,             \* calls of load_leaderboard by the command
     fetches |-> 0,           \* calls of channel.history and fetch_message
     report |-> <<>>,         \* the figures of the completion report
     result |-> "none"]       \* how the command ended

Running == {t \in DOMAIN tasks : tasks[t].pc # "done"}

Quiet == Running = {}

Arrived(message) ==
    /\ Cardinality(DOMAIN tasks) < MaxArrivals
    /\ history' = Append(history, message)
    /\ tasks' = [t \in DOMAIN tasks \cup {message.id} |->
                    IF t = message.id THEN NewTask ELSE tasks[t]]
    /\ UNCHANGED <<file, fn, arg, ret>>

\* the result bot or a member posts
ArrivePost ==
    \E post \in Posts : Arrived(PostMessage(Len(history) + 1, post))

\* somebody types !backfill_wordle, with or without a limit
ArriveBackfill ==
    \E author \in {ADMIN, MEMBER}, limit \in {SmallLimit, DefaultLimit} :
        Arrived([id |-> Len(history) + 1, author |-> author,
                 content |-> BackfillPrefix, note |-> "none",
                 cmd |-> [name |-> "backfill_wordle", limit |-> limit,
                          message_id |-> 0],
                 by |-> 0])

\* somebody types !log_by_id with the id of a message of the channel, or
\* with an id the channel does not hold (0)
ArriveLogById ==
    \E author \in {ADMIN, MEMBER}, message_id \in 0..Len(history) :
        Arrived([id |-> Len(history) + 1, author |-> author,
                 content |-> LogByIdPrefix, note |-> "none",
                 cmd |-> [name |-> "log_by_id", limit |-> 0,
                          message_id |-> message_id],
                 by |-> 0])

Set(t, rec) == tasks' = [tasks EXCEPT ![t] = rec]

\* on_message up to its first await: the load, and the author filter
OnMessage(t) ==
    /\ tasks[t].pc = "on_message"
    /\ Set(t, IF load_leaderboard_raises(file)
               THEN [tasks[t] EXCEPT !.pc = "done", !.result = "crashed"]
               ELSE [tasks[t] EXCEPT
                       !.leaderboard_data = load_leaderboard(file),
                       !.loaded = load_leaderboard(file),
                       !.pc = IF history[t].author = WORDLE_BOT_ID
                              THEN "process" ELSE "commands"])
    /\ UNCHANGED <<file, history, fn, arg, ret>>

\* on_message: process_wordle_message and, when it logged, the save
OnMessageProcess(t) ==
    /\ tasks[t].pc = "process"
    /\ \E outcomes \in OutcomeChoices(history[t]) :
          LET r == process_wordle_message(history[t], tasks[t].leaderboard_data,
                                          outcomes)
              acks == ~StartsWith(history[t].content, BackfillPrefix)
          IN  /\ file' = IF r.logged THEN Saved(t, r.data) ELSE file
              /\ Set(t, [tasks[t] EXCEPT
                           !.leaderboard_data = r.data,
                           !.processed = Append(@, t),
                           !.logged = IF r.logged THEN Append(@, t) ELSE @,
                           !.saves = IF r.logged THEN @ + 1 ELSE @,
                           !.say = IF r.logged /\ acks THEN "processed" ELSE "none",
                           !.after = "commands",
                           !.pc = IF r.logged /\ acks THEN "send" ELSE "commands"])
    /\ UNCHANGED <<history, fn, arg, ret>>

\* an awaited send completes
Send(t) ==
    /\ tasks[t].pc = "send"
    /\ history' = Sent(t, tasks[t].say)
    /\ Set(t, [tasks[t] EXCEPT !.pc = tasks[t].after, !.say = "none",
                               !.after = "none"])
    /\ UNCHANGED <<file, fn, arg, ret>>

\* process_commands with the has_permissions decorators left off
ProcessCommandsUnchecked(t) ==
    /\ tasks[t].pc = "commands"
    /\ LET message == history[t]
           command == message.cmd.name # "none" /\ message.author # WORDLE_BOT_ID
       IN  Set(t, IF ~command
                  THEN [tasks[t] EXCEPT !.pc = "done"]
                  ELSE [tasks[t] EXCEPT
                          !.pc = "send",
                          !.say = IF message.cmd.name = "backfill_wordle"
                                  THEN "scan_start" ELSE "fetch_start",
                          !.after = IF message.cmd.name = "backfill_wordle"
                                    THEN "backfill_load" ELSE "log_load"])
    /\ UNCHANGED <<file, history, fn, arg, ret>>

\* client.process_commands: nothing for a bot's message or a message that
\* is no command; the has_permissions check; then the command up to its
\* first await, the send of its opening line
ProcessCommands(t) ==
    /\ tasks[t].pc = "commands"
    /\ LET message == history[t]
           command == message.cmd.name # "none" /\ message.author # WORDLE_BOT_ID
       IN  Set(t, IF ~command
                  THEN [tasks[t] EXCEPT !.pc = "done"]
                  ELSE IF message.author # ADMIN
                  THEN [tasks[t] EXCEPT !.pc = "done", !.result = "denied"]
                  ELSE [tasks[t] EXCEPT
                          !.pc = "send",
                          !.say = IF message.cmd.name = "backfill_wordle"
                                  THEN "scan_start" ELSE "fetch_start",
                          !.after = IF message.cmd.name = "backfill_wordle"
                                    THEN "backfill_load" ELSE "log_load"])
    /\ UNCHANGED <<file, history, fn, arg, ret>>

\* backfill_wordle_leaderboard from the return of its first send to the
\* start of the history iteration: logged_count = 0 and the load
BackfillLoad(t) ==
    /\ tasks[t].pc = "backfill_load"
    /\ Set(t, IF load_leaderboard_raises(file)
               THEN [tasks[t] EXCEPT !.loads = @ + 1, !.pc = "done",
                                     !.result = "crashed"]
               ELSE [tasks[t] EXCEPT
                       !.logged_count = 0,
                       !.loads = @ + 1,
                       !.leaderboard_data = load_leaderboard(file),
                       !.loaded = load_leaderboard(file),
                       !.pc = "backfill_fetch"])
    /\ UNCHANGED <<file, history, fn, arg, ret>>

\* the history iterator gets the messages of the channel
BackfillFetch(t) ==
    /\ tasks[t].pc = "backfill_fetch"
    /\ Set(t, [tasks[t] EXCEPT
                 !.fetches = @ + 1,
                 !.queue = ChannelHistory(history[t].cmd.limit),
                 !.window = ChannelHistory(history[t].cmd.limit),
                 !.pc = "backfill_scan"])
    /\ UNCHANGED <<file, history, fn, arg, ret>>

\* one round of the async for loop
BackfillScan(t) ==
    /\ tasks[t].pc = "backfill_scan"
    /\ tasks[t].queue # <<>>
    /\ LET message == history[Head(tasks[t].queue)]
           skipped == message.id = t \/ ~is_wordle_result(message)
       IN  \E outcomes \in IF skipped THEN {<<>>} ELSE OutcomeChoices(message) :
              LET r == IF skipped
                       THEN [data |-> tasks[t].leaderboard_data, logged |-> FALSE]
                       ELSE process_wordle_message(message,
                                tasks[t].leaderboard_data, outcomes)
              IN  Set(t, [tasks[t] EXCEPT
                            !.queue = Tail(@),
                            !.leaderboard_data = r.data,
                            !.processed = IF skipped THEN @ ELSE Append(@, message.id),
                            !.logged = IF r.logged THEN Append(@, message.id) ELSE @,
                            !.logged_count = IF r.logged THEN @ + 1 ELSE @])
    /\ UNCHANGED <<file, history, fn, arg, ret>>

\* the loop has ended: the one save, and the report to send
BackfillFinish(t) ==
    /\ tasks[t].pc = "backfill_scan"
    /\ tasks[t].queue = <<>>
    /\ file' = IF tasks[t].logged_count > 0
               THEN Saved(t, tasks[t].leaderboard_data) ELSE file
    /\ Set(t, [tasks[t] EXCEPT
                 !.saves = IF tasks[t].logged_count > 0 THEN @ + 1 ELSE @,
                 !.report = [scanned |-> history[t].cmd.limit,
                             logged |-> tasks[t].logged_count],
                 !.say = IF tasks[t].logged_count > 0
                         THEN "scan_logged" ELSE "scan_nothing",
                 !.result = "complete",
                 !.after = "done",
                 !.pc = "send"])
    /\ UNCHANGED <<history, fn, arg, ret>>

\* an except branch that saves what the scan had logged so far
BackfillFailSaving(t) ==
    /\ \/ tasks[t].pc = "backfill_fetch"
       \/ tasks[t].pc = "backfill_scan" /\ tasks[t].queue # <<>>
    /\ file' = IF tasks[t].logged_count > 0
               THEN Saved(t, tasks[t].leaderboard_data) ELSE file
    /\ Set(t, [tasks[t] EXCEPT
                 !.fetches = @ + 1,
                 !.say = "scan_error",
                 !.result = "failed",
                 !.after = "done",
                 !.pc = "send"])
    /\ UNCHANGED <<history, fn, arg, ret>>

\* the history iterator raises, at its first fetch or at a later one: the
\* except branch
BackfillFail(t) ==
    /\ \/ tasks[t].pc = "backfill_fetch"
       \/ tasks[t].pc = "backfill_scan" /\ tasks[t].queue # <<>>
    /\ Set(t, [tasks[t] EXCEPT
                 !.fetches = @ + 1,
                 !.say = "scan_error",
                 !.result = "failed",
                 !.after = "done",
                 !.pc = "send"])
    /\ UNCHANGED <<file, history, fn, arg, ret>>

\* log_by_id from the return of its first send to the fetch: the load
LogLoad(t) ==
    /\ tasks[t].pc = "log_load"
    /\ Set(t, IF load_leaderboard_raises(file)
               THEN [tasks[t] EXCEPT !.loads = @ + 1, !.pc = "done",
                                     !.result = "crashed"]
               ELSE [tasks[t] EXCEPT
                       !.loads = @ + 1,
                       !.leaderboard_data = load_leaderboard(file),
                       !.loaded = load_leaderboard(file),
                       !.pc = "log_fetch"])
    /\ UNCHANGED <<file, history, fn, arg, ret>>

\* ctx.channel.fetch_message returns the message or raises NotFound; then
\* the author check
LogFetch(t) ==
    /\ tasks[t].pc = "log_fetch"
    /\ LET message_id == history[t].cmd.message_id
           found == message_id \in 1..Len(history)
       IN  Set(t, IF found /\ history[message_id].author = WORDLE_BOT_ID
                  THEN [tasks[t] EXCEPT !.fetches = @ + 1, !.pc = "log_process"]
                  ELSE [tasks[t] EXCEPT
                          !.fetches = @ + 1,
                          !.say = IF found THEN "author_mismatch" ELSE "not_found",
                          !.result = "failed",
                          !.after = "done",
                          !.pc = "send"])
    /\ UNCHANGED <<file, history, fn, arg, ret>>

\* ctx.channel.fetch_message raises something else
LogFetchError(t) ==
    /\ tasks[t].pc = "log_fetch"
    /\ Set(t, [tasks[t] EXCEPT
                 !.fetches = @ + 1,
                 !.say = "log_error",
                 !.result = "failed",
                 !.after = "done",
                 !.pc = "send"])
    /\ UNCHANGED <<file, history, fn, arg, ret>>

\* log_by_id: process_wordle_message and, when it logged, the save
LogProcess(t) ==
    /\ tasks[t].pc = "log_process"
    /\ LET message == history[history[t].cmd.message_id]
       IN  \E outcomes \in OutcomeChoices(message) :
              LET r == process_wordle_message(message, tasks[t].leaderboard_data,
                                              outcomes)
              IN  /\ file' = IF r.logged THEN Saved(t, r.data) ELSE file
                  /\ Set(t, [tasks[t] EXCEPT
                               !.leaderboard_data = r.data,
                               !.processed = Append(@, message.id),
                               !.logged = IF r.logged THEN Append(@, message.id) ELSE @,
                               !.saves = IF r.logged THEN @ + 1 ELSE @,
                               !.say = IF r.logged THEN "log_success" ELSE "log_warning",
                               !.result = IF r.logged THEN "logged" ELSE "nothing",
                               !.after = "done",
                               !.pc = "send"])
    /\ UNCHANGED <<history, fn, arg, ret>>

---------------------------------------------------------------------------
(* The bot in a channel.                                                   *)

\* the channels the bot can find when it starts: posts made while it was
\* not running
Backlogs ==
    {[i \in 1..Len(q) |-> PostMessage(i, q[i])] : q \in SeqsUpTo(Posts, MaxBacklog)}

Init ==
    /\ file = NoFile
    /\ history \in Backlogs
    /\ tasks = <<>>
    /\ fn = "none"
    /\ arg = <<>>
    /\ ret = <<>>

Arrive == ArrivePost \/ ArriveBackfill \/ ArriveLogById

Step(t) ==
    \/ OnMessage(t)
    \/ OnMessageProcess(t)
    \/ Send(t)
    \/ ProcessCommands(t)
    \/ BackfillLoad(t)
    \/ BackfillFetch(t)
    \/ BackfillScan(t)
    \/ BackfillFinish(t)
    \/ BackfillFail(t)
    \/ LogLoad(t)
    \/ LogFetch(t)
    \/ LogFetchError(t)
    \/ LogProcess(t)

\* one handler at a time: a message arrives only when no task is running
Next ==
    \/ Quiet /\ Arrive
    \/ \E t \in Running : Step(t)

Spec == Init /\ [][Next]_vars

\* handlers overlap: a message may arrive while tasks are at an await
NextOverlap ==
    \/ Arrive
    \/ \E t \in Running : Step(t)

\* the overlapping handlers start from a shorter backlog
InitOverlap == Init /\ Len(history) <= OverlapBacklog

SpecOverlap == InitOverlap /\ [][NextOverlap]_vars

\* what the bot can find in the place of leaderboard.json when it starts:
\* nothing, a file an earlier run saved, text that is not JSON, bytes that
\* are not text, a file it may not open
StartFiles ==
    { NoFile,
      [state |-> "ok", data |-> CHOOSE snap \in StartSnapshots : snap # EmptyBoard,
       writer |-> 0],
      [state |-> "corrupt", data |-> EmptyBoard, writer |-> 0],
      [state |-> "undecodable", data |-> EmptyBoard, writer |-> 0],
      [state |-> "unreadable", data |-> EmptyBoard, writer |-> 0] }

InitStorage ==
    /\ file \in StartFiles
    /\ history \in Backlogs
    /\ Len(history) <= StorageBacklog
    /\ tasks = <<>>
    /\ fn = "none"
    /\ arg = <<>>
    /\ ret = <<>>

SpecStorage == InitStorage /\ [][Next]_vars

---------------------------------------------------------------------------
(* Properties.                                                             *)

Players == {<<"1">>, <<"2">>}

Games(data, p) == IF p \in DOMAIN data THEN data[p].games_played ELSE 0

Score(data, p) == IF p \in DOMAIN data THEN data[p].total_score ELSE 0

\* the sum of f[k] over the indices of the sequence f
RECURSIVE SumSeq(_)
SumSeq(f) == IF Len(f) = 0 THEN 0 ELSE f[1] + SumSeq(Tail(f))

\* mentions of player p written in one generated segment
SegMentions(seg, p) ==
    Cardinality({k \in 1..Len(seg.mentions) : seg.mentions[k].id = p})

\* the points of a generated segment
SegPoints(seg) == calculate_score(<<UpperChar(seg.token)>>)

Called(f) == fn = f /\ Len(ret) >= 1

\* ---- C2
\* C2: one call of process_wordle_message on a message of the result bot
\* adds to games_played[p] the number of mentions of p over all segments
\* (a mention repeated in a segment counting each time), adds to
\* total_score[p] the points of the segment of each mention, and leaves
\* the records of the players not mentioned as they were.
C2_IngestAddsEachMention ==
    Called("process_wordle_message") =>
        LET segs == arg.segs
            before == arg.snapshot
            after == ret[1].data
            mentioned == {p \in Players : \E i \in 1..Len(segs) : SegMentions(segs[i], p) > 0}
        IN  /\ DOMAIN after = DOMAIN before \cup mentioned
            /\ \A p \in Players :
                 /\ Games(after, p) =
                      Games(before, p)
                      + SumSeq([i \in 1..Len(segs) |-> SegMentions(segs[i], p)])
                 /\ Score(after, p) =
                      Score(before, p)
                      + SumSeq([i \in 1..Len(segs) |->
                                  SegMentions(segs[i], p) * SegPoints(segs[i])])
            /\ \A p \in DOMAIN before \ mentioned : after[p] = before[p]

\* a call on a snapshot that holds player 1, for a message with player 2
\* twice in one segment and once more in another
C2_Witness ==
    /\ Called("process_wordle_message")
    /\ arg.snapshot # EmptyBoard
    /\ Len(arg.segs) = 2
    /\ SegMentions(arg.segs[1], <<"2">>) = 2
    /\ SegMentions(arg.segs[2], <<"2">>) = 1
    /\ SegPoints(arg.segs[1]) # SegPoints(arg.segs[2])
    /\ ret[1].data[<<"2">>].games_played = 3

\* ---- C3
\* C3: the same message ingested twice in succession adds, for every
\* player, twice the games_played and twice the total_score that one
\* ingestion adds (from the empty snapshot both fields double): nothing
\* is deduplicated.
C3_SecondIngestDoubles ==
    (fn = "process_wordle_message" /\ Len(ret) = 2) =>
        LET start == arg.snapshot
            once == ret[1].data
            twice == ret[2].data
        IN  /\ ret[2].logged = ret[1].logged
            /\ \A p \in Players :
                 /\ Games(twice, p) - Games(start, p)
                      = 2 * (Games(once, p) - Games(start, p))
                 /\ Score(twice, p) - Score(start, p)
                      = 2 * (Score(once, p) - Score(start, p))
            /\ start = EmptyBoard =>
                 /\ DOMAIN twice = DOMAIN once
                 /\ \A p \in DOMAIN once :
                      /\ twice[p].games_played = 2 * once[p].games_played
                      /\ twice[p].total_score = 2 * once[p].total_score

\* two ingestions of a message that gives player 1, who had a record,
\* points
C3_Witness ==
    /\ fn = "process_wordle_message"
    /\ Len(ret) = 2
    /\ arg.snapshot # EmptyBoard
    /\ Score(ret[1].data, <<"1">>) > Score(arg.snapshot, <<"1">>)
    /\ Games(ret[2].data, <<"1">>) = Games(arg.snapshot, <<"1">>) + 2

\* ---- C4
AvgOfRow(row) ==
    AverageGuess([total_score |-> row.score, games_played |-> row.games])

\* C4: the ranking is ordered by total_score descending, and of two
\* records with equal total_score the one with the smaller
\* average_guesses has the lower-numbered rank.
C4_FewerGuessesRankFirst ==
    Called("display_wordle_leaderboard") =>
        LET rows == ret[1].rows
        IN  \A i, j \in 1..Len(rows) :
               rows[i].rank < rows[j].rank =>
                  /\ rows[i].score >= rows[j].score
                  /\ rows[i].score = rows[j].score =>
                        ~FracLess(AvgOfRow(rows[j]), AvgOfRow(rows[i]))

\* ---- C6
\* C6: for a body of K segments "<token>/6:" each followed by zero or more
\* mentions, the parser yields K results in textual order, and result i
\* holds exactly the mentions written in segment i.
C6_OneResultPerSegment ==
    Called("process_wordle_message") =>
        LET segs == arg.segs
            parsed == ret[1].parsed
        IN  /\ Len(parsed) = Len(segs)
            /\ \A i \in 1..Len(segs) :
                 /\ i <= Len(parsed)
                 /\ parsed[i].token = segs[i].token
                 /\ parsed[i].refs =
                      [k \in 1..Len(segs[i].mentions) |-> segs[i].mentions[k].id]

\* a body of two segments, each with mentions, the first not those of the
\* second
C6_Witness ==
    /\ Called("process_wordle_message")
    /\ Len(arg.segs) = 2
    /\ Len(ret[1].parsed) = 2
    /\ ret[1].parsed[1].refs = << <<"1">>, <<"2">> >>
    /\ ret[1].parsed[2].refs = << <<"2">> >>

\* ---- C7
\* C7: calculate_score returns a value for every string, 7 - g for a guess
\* count g in 1..6, 0 for X and for x, and never more for a larger guess
\* count than for a smaller one.
C7_ScoreTable ==
    /\ (fn = "calculate_score" /\ ret = <<>>) => ENABLED CallCalculateScore
    /\ Called("calculate_score") =>
         /\ ret[1] \in Nat
         /\ \A g \in 1..6 : arg = <<DigitChar(g)>> => ret[1] = 7 - g
         /\ arg \in {<<"X">>, <<"x">>} => ret[1] = 0
         /\ IntParse(arg).ok =>
              \A t \in TokenStrings :
                 (IntParse(t).ok /\ IntParse(t).val >= IntParse(arg).val)
                    => calculate_score(t) <= ret[1]

\* six guesses score one point
C7_Witness == Called("calculate_score") /\ arg = <<"6">> /\ ret = <<1>>

\* ---- C8
\* C8: a score token that is neither a guess count in 1..6 nor the failure
\* marker gets 0 points, for every character the score pattern can match.
C8_OtherTokensScoreZero ==
    (/\ Called("calculate_score")
     /\ Len(arg) = 1
     /\ arg[1] \in Digit \cup {"X", "x"}
     /\ arg[1] \notin {"1", "2", "3", "4", "5", "6", "X", "x"})
        => ret[1] = 0

\* ---- the ingestion modes

\* mentions of player p that process_wordle_message logs for message m of
\* the channel
Mentions(m, p) ==
    LET occs == MessageOccurrences(history[m])
    IN  Cardinality({k \in 1..Len(occs) : occs[k].user_id = p})

\* the mentions of p over the messages ms, a sequence of ids
MentionsOver(ms, p) == SumSeq([k \in 1..Len(ms) |-> Mentions(ms[k], p)])

RECURSIVE SumOver(_, _)
SumOver(S, p) ==
    IF S = {} THEN 0
    ELSE LET m == CHOOSE x \in S : TRUE
         IN  Mentions(m, p) + SumOver(S \ {m}, p)

\* the messages whose results some operation logged and saved
Persisted ==
    {m \in 1..Len(history) :
        \E t \in DOMAIN tasks :
            tasks[t].saves > 0 /\ \E k \in 1..Len(tasks[t].logged) : tasks[t].logged[k] = m}

\* ---- C1
\* C1: after live ingestions, backfills and replays run one after another,
\* every player's persisted games_played is the number of mentions of the
\* player over the distinct messages ingested: no message counts twice.
C1_EachMessageCountedOnce ==
    Quiet =>
        \A p \in Players :
            Games(load_leaderboard(file), p) = SumOver(Persisted, p)

\* ---- C5
\* C5: a save writes the saver's own snapshot: what it loaded, plus what
\* it logged itself. Nothing another operation saved in between is kept.
C5_SaveOverwrites ==
    \A t \in DOMAIN tasks :
        file.writer = t =>
            \A p \in Players :
                Games(load_leaderboard(file), p) =
                    Games(tasks[t].loaded, p) + MentionsOver(tasks[t].logged, p)

\* two operations overlapped, both saved, and a player whose result the
\* earlier one logged and saved has no record in the file
C5_LostUpdate ==
    \E t1, t2 \in DOMAIN tasks :
        /\ t1 # t2
        /\ Quiet
        /\ tasks[t1].saves > 0
        /\ tasks[t2].saves > 0
        /\ file.writer = t2
        /\ \E p \in Players :
              /\ MentionsOver(tasks[t1].logged, p) > 0
              /\ p \notin DOMAIN load_leaderboard(file)

\* ---- C9
Backfills ==
    {t \in DOMAIN tasks :
        history[t].cmd.name = "backfill_wordle" /\ history[t].author = ADMIN}

\* what the claim calls eligible for the backfill of task t
Eligible(t, m) ==
    /\ m # t
    /\ history[m].author = WORDLE_BOT_ID
    /\ Contains(KEYWORD_PHRASE, Lower(Strip(history[m].content)))

\* the messages of the window the loop has been through
Scanned(t) == SubSeq(tasks[t].window, 1, Len(tasks[t].window) - Len(tasks[t].queue))

\* C9: a backfill gives process_wordle_message exactly the messages of its
\* window that the result bot wrote and that hold the phrase, the command
\* message excepted, all on the one snapshot it loaded; it saves at most
\* once, after the scan, and once it has completed it has saved once if a
\* message logged a result and not at all otherwise.
C9_BackfillScansThenSavesOnce ==
    \A t \in Backfills :
        LET T == tasks[t]
        IN  /\ T.processed = SelectSeq(Scanned(t), LAMBDA m : Eligible(t, m))
            /\ T.logged_count = Len(T.logged)
            /\ \A p \in Players :
                  Games(T.leaderboard_data, p) =
                      Games(T.loaded, p) + MentionsOver(T.logged, p)
            /\ T.saves <= 1
            /\ T.saves = 1 => (T.result = "complete" /\ T.queue = <<>>)
            /\ T.result = "complete" =>
                  /\ T.queue = <<>>
                  /\ T.saves = IF T.logged_count > 0 THEN 1 ELSE 0
            /\ file.writer = t => load_leaderboard(file) = T.leaderboard_data

\* a completed backfill that logged two messages and passed over a post
\* that is not eligible
C9_Witness ==
    \E t \in Backfills :
        /\ tasks[t].pc = "done"
        /\ tasks[t].result = "complete"
        /\ Len(tasks[t].logged) = 2
        /\ tasks[t].saves = 1
        /\ \E k \in 1..Len(tasks[t].window) :
              LET m == tasks[t].window[k]
              IN  history[m].author \in {WORDLE_BOT_ID, MEMBER} /\ ~Eligible(t, m)

\* ---- C10
FailureNotes == {"scan_error", "not_found", "author_mismatch", "log_error"}

Latest(t) == \A u \in DOMAIN tasks : u <= t

\* C10: an ingestion command that ends in failure (the history scan
\* raises, the message cannot be fetched, its author is not the result
\* bot) saves nothing, leaves the file as it was when the command arrived,
\* and tells the invoker of the failure.
C10_FailureSavesNothing ==
    \A t \in DOMAIN tasks :
        tasks[t].result = "failed" =>
            /\ tasks[t].saves = 0
            /\ Latest(t) => file = tasks[t].before
            /\ tasks[t].pc = "done" =>
                  \E k \in 1..Len(history) :
                      /\ k > t
                      /\ history[k].by = t
                      /\ history[k].note \in FailureNotes

\* a backfill whose scan raised after a message had been logged in memory
C10_Witness ==
    \E t \in Backfills :
        /\ tasks[t].pc = "done"
        /\ tasks[t].result = "failed"
        /\ tasks[t].logged_count > 0
        /\ tasks[t].leaderboard_data # tasks[t].loaded

\* ---- C11
\* whether a message the task gave to process_wordle_message held a player
\* result
HasResults(t) ==
    \E k \in 1..Len(tasks[t].processed) :
        MessageOccurrences(history[tasks[t].processed[k]]) # <<>>

\* the parts of C11 about a message without results and about the
\* acknowledgement of the live mode
NoResultNoChange ==
    /\ \A t \in DOMAIN tasks :
          ~HasResults(t) => tasks[t].leaderboard_data = tasks[t].loaded
    /\ \A t \in DOMAIN tasks :
          tasks[t].say = "processed" => tasks[t].saves = 1
    /\ \A k \in 1..Len(history) :
          history[k].note = "processed" =>
              /\ history[k].by \in DOMAIN tasks
              /\ history[history[k].by].author = WORDLE_BOT_ID
              /\ tasks[history[k].by].saves = 1
              /\ history[k].by < k

\* C11 as stated: every finished operation has saved if and only if it
\* logged at least one player result; a message of the result bot without
\* a mention changes nothing and is not saved; the live acknowledgement
\* follows a save.
C11_SavedIffLogged ==
    /\ \A t \in DOMAIN tasks :
          tasks[t].pc = "done" => (tasks[t].saves > 0 <=> HasResults(t))
    /\ NoResultNoChange

\* C11, amended: an operation saves only if it logged a player result, and
\* an operation that finished without ending in its failure branch has
\* saved if and only if it logged one (a backfill whose scan raises after
\* it logged saves nothing); a message of the result bot without a
\* mention changes nothing and is not saved; the live acknowledgement
\* follows a save.
C11_SavedIffLoggedUnlessFailed ==
    /\ \A t \in DOMAIN tasks :
          /\ tasks[t].saves > 0 => HasResults(t)
          /\ tasks[t].result = "failed" => tasks[t].saves = 0
          /\ (tasks[t].pc = "done" /\ tasks[t].result # "failed") =>
                (tasks[t].saves > 0 <=> HasResults(t))
    /\ NoResultNoChange

\* the result bot posted a score nobody got: processed live, nothing
\* saved, no file written; and another post was saved and acknowledged
C11_Witness ==
    /\ Quiet
    /\ \E t \in DOMAIN tasks :
          /\ history[t].author = WORDLE_BOT_ID
          /\ history[t].content = NobodyPost
          /\ tasks[t].processed = <<t>>
          /\ tasks[t].saves = 0
    /\ \E k \in 1..Len(history) : history[k].note = "processed"

\* ---- C12
\* whether the score pattern (\d|X)/6: occurs in the text
HasScorePattern(s) == \E i \in 1..Len(s) : ScoreAt(s, i)

\* C12: process_wordle_message returns False and leaves the dict it was
\* given as it was when the author is not the result bot, when the body is
\* empty, and when the cleaned body holds no score pattern.
C12_RejectedLeavesSnapshot ==
    Called("process_wordle_message") =>
        ((\/ arg.message.author # WORDLE_BOT_ID
          \/ arg.message.content = <<>>
          \/ ~HasScorePattern(Strip(RemoveStars(arg.message.content))))
            => (ret[1].logged = FALSE /\ ret[1].data = arg.snapshot))

\* a member posts a well-formed result and the dict, which held a record,
\* stays as it was
C12_Witness ==
    /\ Called("process_wordle_message")
    /\ arg.message.author = MEMBER
    /\ arg.message.content = <<"2", "/", "6", ":", "<", "@", "1", ">">>
    /\ arg.snapshot # EmptyBoard
    /\ ret[1].logged = FALSE
    /\ ret[1].data = arg.snapshot

\* ---- C13
\* the mentions of p among the occurrences
OccCount(occs, p) == Cardinality({k \in 1..Len(occs) : occs[k].user_id = p})

\* the points of the mentions of p among the occurrences
OccPoints(occs, p) ==
    SumSeq([k \in 1..Len(occs) |-> IF occs[k].user_id = p THEN occs[k].points ELSE 0])

\* C13: whatever the fetch_user calls do (return, raise NotFound, raise
\* something else), every mention is counted: games_played and
\* total_score of each player grow by the mentions and their points, as
\* with successful lookups, and the record's username is a name or a
\* placeholder that embeds the user id.
C13_LookupNeverAborts ==
    Called("process_wordle_message") =>
        LET occs == MessageOccurrences(arg.message)
            before == arg.snapshot
            after == ret[1].data
        IN  /\ ret[1].logged = (Len(occs) > 0)
            /\ \A p \in Players :
                 /\ Games(after, p) = Games(before, p) + OccCount(occs, p)
                 /\ Score(after, p) = Score(before, p) + OccPoints(occs, p)
                 /\ OccCount(occs, p) > 0 =>
                       /\ after[p].username.ref = p
                       /\ after[p].username.kind \in {"name", "not_found", "error"}

\* the first lookup of a message raises an error other than NotFound, and
\* the mention after it is counted as well
C13_Witness ==
    /\ Called("process_wordle_message")
    /\ Len(ret[1].outcomes) = 2
    /\ ret[1].outcomes[1] = "error"
    /\ ret[1].logged
    /\ \E p \in Players :
          /\ MessageOccurrences(arg.message)[2].user_id = p
          /\ Games(ret[1].data, p) > Games(arg.snapshot, p)
          /\ MessageOccurrences(arg.message)[1].user_id # p

\* ---- C14
\* the mentions of p the task logged, the file it found not being usable
FoundNoData(t) == tasks[t].before.state # "ok"

\* C14: load_leaderboard fails no caller, whatever is in the place of the
\* file (nothing, a file that cannot be opened, content that is not a
\* snapshot), and hands it an empty mapping: an operation that then logs
\* results saves a snapshot that holds those results and nothing else.
C14_LoadNeverFails ==
    \A t \in DOMAIN tasks :
        /\ tasks[t].result # "crashed"
        /\ FoundNoData(t) =>
              /\ tasks[t].loaded = EmptyBoard
              /\ file.writer = t =>
                    \A p \in Players :
                        Games(load_leaderboard(file), p)
                            = MentionsOver(tasks[t].logged, p)

\* ---- C15
\* the tasks of the privileged commands typed by a member who is no
\* administrator
Unprivileged ==
    {t \in DOMAIN tasks : history[t].cmd.name # "none" /\ history[t].author # ADMIN}

C17_OrderDoesNotMatter ==
    (fn = "ingest_in_order" /\ Len(ret) = 2) =>
        /\ DOMAIN ret[1].data = DOMAIN ret[2].data
        /\ \A p \in Players :
              /\ Games(ret[1].data, p) = Games(ret[2].data, p)
              /\ Score(ret[1].data, p) = Score(ret[2].data, p)

\* two messages with different points for player 1, who had a record,
\* ingested in both orders; the two runs differed in the names they stored
C17_Witness ==
    /\ fn = "ingest_in_order"
    /\ Len(ret) = 2
    /\ arg.kind = "messages"
    /\ arg.snapshot # EmptyBoard
    /\ arg.one[1].content = BodyText(<<[token |-> "2", mentions |-> <<[id |-> <<"1">>, bang |-> FALSE]>>]>>)
    /\ arg.one[2].content = BodyText(<<[token |-> "X", mentions |-> <<[id |-> <<"1">>, bang |-> FALSE]>>]>>)
    /\ Score(ret[1].data, <<"1">>) = Score(arg.snapshot, <<"1">>) + 5
    /\ ret[1].data # ret[2].data

\* ---- C18
\* the last mention of p among the occurrences (0 when there is none)
LastMention(occs, p) ==
    IF OccCount(occs, p) = 0 THEN 0
    ELSE CHOOSE k \in 1..Len(occs) :
            /\ occs[k].user_id = p
            /\ \A j \in (k + 1)..Len(occs) : occs[j].user_id # p

\* the username a fetch_user call for p ending as outcome leaves
NameAfter(p, outcome) ==
    CASE outcome = "ok" -> [kind |-> "name", ref |-> p]
      [] outcome = "not_found" -> [kind |-> "not_found", ref |-> p]
      [] outcome = "error" -> [kind |-> "error", ref |-> p]

\* C18: after one ingestion and after a second one, the username of every
\* player the message mentions is what the latest fetch_user call for that
\* player gave, a placeholder when that call failed, whatever was stored
\* before; the username of a player not mentioned is as it was.
C18_LatestLookupNames ==
    Called("process_wordle_message") =>
        LET occs == MessageOccurrences(arg.message)
            latest == ret[Len(ret)]
        IN  \A p \in Players :
              IF OccCount(occs, p) > 0
              THEN latest.data[p].username
                     = NameAfter(p, latest.outcomes[LastMention(occs, p)])
              ELSE p \in DOMAIN arg.snapshot =>
                     latest.data[p].username = arg.snapshot[p].username

\* player 1 had a name stored, the first ingestion found the name again,
\* the lookup of the second ingestion raised NotFound: the placeholder is
\* stored
C18_Witness ==
    /\ fn = "process_wordle_message"
    /\ Len(ret) = 2
    /\ arg.snapshot # EmptyBoard
    /\ OccCount(MessageOccurrences(arg.message), <<"1">>) > 0
    /\ ret[1].data[<<"1">>].username = OldName
    /\ ret[2].data[<<"1">>].username = [kind |-> "not_found", ref |-> <<"1">>]

\* ---- C19
\* C19: the report of a completed backfill gives the number of messages
\* results were logged from and the number of messages the history
\* iteration delivered, also when the channel holds fewer than the limit.
C19_ReportCountsScanned ==
    \A t \in Backfills :
        tasks[t].result = "complete" =>
            /\ tasks[t].report.logged = Len(tasks[t].logged)
            /\ tasks[t].report.scanned = Len(tasks[t].window)

\* ---- C20
\* C20: in every snapshot the file holds, whatever was posted and
\* whichever of the live mode, backfill and log_by_id ingested it, every
\* record has games_played >= 1 and 0 <= total_score <= 6 * games_played.
C20_RecordsWithinRange ==
    file.state = "ok" =>
        \A p \in DOMAIN file.data :
            /\ file.data[p].games_played >= 1
            /\ file.data[p].total_score >= 0
            /\ file.data[p].total_score <= 6 * file.data[p].games_played

=============================================================================
